---- MODULE Spec2Model ----
(***************************************************************************)
(* The inspection modification-request workflow of the patrimoine          *)
(* application (patrimoine/views.py, patrimoine/models.py): Submit         *)
(* (inspection_request_edit), Approve (inspection_request_approve) and     *)
(* Reject (inspection_request_reject) over the Inspection,                 *)
(* InspectionModificationRequest and AuditLog tables.                      *)
(*                                                                         *)
(* The database runs in Django's default autocommit mode (settings.py      *)
(* sets no ATOMIC_REQUESTS and the views open no transaction), so every    *)
(* ORM call or cursor.execute of a view is a step of its own, committed    *)
(* when it returns.  Spec interleaves the steps of concurrent requests;    *)
(* SeqSpec runs each request to completion before the next one starts.     *)
(***************************************************************************)
EXTENDS Integers, Sequences, FiniteSets, TLC

VARIABLES
    users,        \* auth_user + groups: user -> [is_superuser, groups]
    inspections,  \* table inspection: id_inspection -> row
    requests,     \* table inspection_modification_request: sequence, id_request = index
    audit,        \* table audit_log: sequence of rows, in insertion order
    procs,        \* the requests being served: worker -> frame of the running view
    last,         \* the view call that returned most recently: [op, exit]
    ncalls,       \* requests that arrived while others may be running (Spec)
    patrimoines,  \* table patrimoine: id_patrimoine -> [created_by]
    interventions,\* table intervention: id_intervention -> [id_patrimoine, created_by]
    documents,    \* table document: id_document -> row
    files,        \* default_storage: the paths that hold a file
    nav           \* a browser following the dashboard redirects (RoleSpec):
                  \* [user, url requested, page rendered, trail of URLs served]

\* The tables and storage that the modification-request views do not touch.
Records == <<patrimoines, interventions, documents, files>>

vars == <<users, inspections, requests, audit, procs, last, ncalls,
          patrimoines, interventions, documents, files, nav>>

-----------------------------------------------------------------------------
(* Bounds *)

\* Rows of inspection_modification_request in one behaviour.
MaxRequests == 2

\* Requests arriving in one behaviour of Spec, where requests overlap.
MaxCalls == 4

\* Requests served in one behaviour of AdminSpec and of DocSpec.
MaxOps == 2

\* Server workers serving requests at the same time.
Workers == {1, 2}

-----------------------------------------------------------------------------
(* Text: a str is a sequence of one-character strings. *)

S_BON == <<"B", "O", "N">>
S_MOYEN == <<"M", "O", "Y", "E", "N">>
S_DEGRADE == <<"D", "E", "G", "R", "A", "D", "E">>
S_PENDING == "PENDING"
S_APPROVED == "APPROVED"
S_REJECTED == "REJECTED"

IsSpace(c) == c \in {" ", "\t", "\n"}

RECURSIVE LStrip(_)
LStrip(s) == IF s # <<>> /\ IsSpace(Head(s)) THEN LStrip(Tail(s)) ELSE s

RECURSIVE RStrip(_)
RStrip(s) ==
    IF s # <<>> /\ IsSpace(s[Len(s)]) THEN RStrip(SubSeq(s, 1, Len(s) - 1)) ELSE s

\* str.strip()
Strip(s) == RStrip(LStrip(s))

Digits == <<"0", "1", "2", "3", "4", "5", "6", "7", "8", "9">>

IsDigit(c) == \E i \in 1..10 : Digits[i] = c

DigitVal(c) == (CHOOSE i \in 1..10 : Digits[i] = c) - 1

RECURSIVE ToNat(_)
ToNat(s) == IF s = <<>> THEN 0 ELSE 10 * ToNat(SubSeq(s, 1, Len(s) - 1)) + DigitVal(s[Len(s)])

AllDigits(s) == s # <<>> /\ \A i \in 1..Len(s) : IsDigit(s[i])

\* The fields of s between the "-" separators.
RECURSIVE SplitDash(_)
SplitDash(s) ==
    IF \A i \in 1..Len(s) : s[i] # "-" THEN <<s>>
    ELSE LET k == CHOOSE i \in 1..Len(s) : s[i] = "-" /\ \A j \in 1..(i - 1) : s[j] # "-"
         IN  <<SubSeq(s, 1, k - 1)>> \o SplitDash(SubSeq(s, k + 1, Len(s)))

IsLeap(y) == (y % 4 = 0 /\ y % 100 # 0) \/ y % 400 = 0

DaysInMonth(y, m) ==
    IF m = 2 THEN (IF IsLeap(y) THEN 29 ELSE 28)
    ELSE IF m \in {4, 6, 9, 11} THEN 30 ELSE 31

\* A date is <<year, month, day>>.
\* The date column's input conversion of a text parameter in year-month-day
\* form: [ok, date].  Anything else (the empty string included) is an error
\* of the statement.
DateIn(s) ==
    LET f == SplitDash(s)
        wellFormed == /\ Len(f) = 3
                      /\ \A i \in 1..3 : AllDigits(f[i])
                      /\ Len(f[1]) = 4
                      /\ Len(f[2]) <= 2
                      /\ Len(f[3]) <= 2
        y == ToNat(f[1])
        m == ToNat(f[2])
        d == ToNat(f[3])
    IN  IF wellFormed /\ y >= 1 /\ m \in 1..12 /\ d >= 1 /\ d <= DaysInMonth(y, m)
        THEN [ok |-> TRUE, date |-> <<y, m, d>>]
        ELSE [ok |-> FALSE, date |-> <<>>]

RECURSIVE Pad(_, _)
Pad(s, n) == IF Len(s) >= n THEN s ELSE Pad(<<"0">> \o s, n)

RECURSIVE NatStr(_)
NatStr(n) == IF n < 10 THEN <<Digits[n + 1]>> ELSE NatStr(n \div 10) \o <<Digits[(n % 10) + 1]>>

\* date.isoformat()
IsoFormat(d) ==
    Pad(NatStr(d[1]), 4) \o <<"-">> \o Pad(NatStr(d[2]), 2) \o <<"-">> \o Pad(NatStr(d[3]), 2)

\* datetime.isoformat() of a naive datetime without microseconds
IsoFormatDateTime(dt) ==
    IsoFormat(SubSeq(dt, 1, 3)) \o <<"T">> \o Pad(NatStr(dt[4]), 2) \o <<":">>
        \o Pad(NatStr(dt[5]), 2) \o <<":">> \o Pad(NatStr(dt[6]), 2)

\* float(Decimal): the number, whatever the Decimal's trailing zeros.
RECURSIVE FloatOf(_)
FloatOf(q) == IF q[2] > 0 /\ q[1] % 10 = 0 THEN FloatOf(<<q[1] \div 10, q[2] - 1>>) ELSE q

-----------------------------------------------------------------------------
(* Python values held in audit snapshots and nullable columns. *)

None == [t |-> "none", v |-> <<>>]
Str(s) == [t |-> "str", v |-> s]
DateV(d) == [t |-> "date", v |-> d]

\* A datetime is <<year, month, day, hour, minute, second>>; a Decimal is
\* <<digits, places>>, the integer digits with the point places from the
\* right; a float is written the same way, without trailing zeros.
DateTimeV(dt) == [t |-> "datetime", v |-> dt]
DecimalV(q) == [t |-> "decimal", v |-> q]
FloatV(q) == [t |-> "float", v |-> q]
IntV(n) == [t |-> "int", v |-> n]

\* No user (NULL foreign key), and NULL / set timestamps.
NoUser == "None"
NoTime == <<>>
At(t) == <<t>>

-----------------------------------------------------------------------------
(* Authorization predicates *)

\* Mutant: the memberships are those the user had at the start, remembered
\* across requests.
_is_admin_memoized(user) ==
    IF user \in {"ins1", "ins2"} THEN FALSE
    ELSE IF user \in {"adm1", "root"} THEN TRUE
    ELSE users[user].is_superuser \/ "ADMIN" \in users[user].groups

\* Mutant: membership in any group gives the review authority.
_is_admin_any_group(user) == users[user].is_superuser \/ users[user].groups # {}

\* _is_admin(user)
_is_admin(user) == users[user].is_superuser \/ "ADMIN" \in users[user].groups

\* Mutant: the ownership test is missing.
NotOwnerNever(inspection, user) == FALSE

\* inspection.id_inspecteur != request.user
NotOwner(inspection, user) == inspection.id_inspecteur # user

-----------------------------------------------------------------------------
(* The database seen by a view: db = [inspections, requests, audit]. *)

DB == [inspections |-> inspections, requests |-> requests, audit |-> audit]

\* inspection.modification_requests.filter(status="PENDING")
PendingRequests(db, id_inspection) ==
    {r \in DOMAIN db.requests :
        /\ db.requests[r].id_inspection = id_inspection
        /\ db.requests[r].status = S_PENDING}

\* Mutant: the test for an existing PENDING request is missing.
HasPendingNever(db, id_inspection) == FALSE

\* Mutant: any request of the inspection, reviewed or not, blocks.
HasPendingOrReviewed(db, id_inspection) ==
    \E r \in DOMAIN db.requests : db.requests[r].id_inspection = id_inspection

\* inspection.modification_requests.filter(status="PENDING").exists()
HasPending(db, id_inspection) == PendingRequests(db, id_inspection) # {}

\* Mutant: the status test of the review views is missing.
NotPendingNever(mod_request) == FALSE

\* mod_request.status != "PENDING"
NotPending(mod_request) == mod_request.status # S_PENDING

\* Mutant: only dates are converted.
NormalizeValueDatesOnly(value) == IF value.t = "date" THEN Str(IsoFormat(value.v)) ELSE value

\* _normalize_audit_data: a date or datetime becomes its ISO string, a
\* Decimal becomes a float, other values are kept; an empty or missing
\* mapping becomes None, written here as the empty mapping <<>>.
NormalizeValue(value) ==
    IF value.t = "datetime" THEN Str(IsoFormatDateTime(value.v))
    ELSE IF value.t = "date" THEN Str(IsoFormat(value.v))
    ELSE IF value.t = "decimal" THEN FloatV(FloatOf(value.v))
    ELSE value

_normalize_audit_data(data) == [k \in DOMAIN data |-> NormalizeValue(data[k])]

NoData == <<>>

\* Mutant: the row written takes the place of the newest row.
_log_audit_over_newest(db, actor, action, entity_type, entity_id, old_data, new_data, now) ==
    LET row == [actor |-> actor,
                action |-> action,
                entity_type |-> entity_type,
                entity_id |-> entity_id,
                old_data |-> _normalize_audit_data(old_data),
                new_data |-> _normalize_audit_data(new_data),
                created_at |-> now]
    IN  [db EXCEPT !.audit = IF @ = <<>> THEN <<row>> ELSE [@ EXCEPT ![Len(@)] = row]]

\* _log_audit: one row appended to audit_log.
_log_audit(db, actor, action, entity_type, entity_id, old_data, new_data, now) ==
    [db EXCEPT !.audit = Append(@,
        [actor |-> actor,
         action |-> action,
         entity_type |-> entity_type,
         entity_id |-> entity_id,
         old_data |-> _normalize_audit_data(old_data),
         new_data |-> _normalize_audit_data(new_data),
         created_at |-> now])]

-----------------------------------------------------------------------------
(* Frames: the locals of one running view call. *)

NoPost == [date_inspection |-> <<>>, etat |-> <<>>, observations |-> <<>>, admin_note |-> <<>>]

NoRequest ==
    [id_inspection |-> 0, requested_by |-> NoUser, requested_at |-> NoTime,
     status |-> "", reviewed_by |-> NoUser, reviewed_at |-> NoTime,
     admin_note |-> None,
     proposed_data |-> [date_inspection |-> <<>>, etat |-> <<>>, observations |-> <<>>]]

Idle ==
    [op |-> "", user |-> NoUser, target |-> 0, method |-> "", post |-> NoPost,
     pc |-> "idle", resp |-> "", exit |-> "",
     mod_request |-> NoRequest, old_data |-> NoData]

\* A view returns: its HTTP response and the return statement taken.
Return(db, f, resp, exit) ==
    [db |-> db, f |-> [f EXCEPT !.pc = "done", !.resp = resp, !.exit = exit]]

Goto(db, f, pc) == [db |-> db, f |-> [f EXCEPT !.pc = pc]]

-----------------------------------------------------------------------------
(* Submit: inspection_request_edit *)

\* Mutant: the posted values are stored as typed, without strip().
ProposedDataUnstripped(post) ==
    [date_inspection |-> post.date_inspection,
     etat |-> post.etat,
     observations |-> post.observations]

\* The proposed_data collected from request.POST.
ProposedData(post) ==
    [date_inspection |-> Strip(post.date_inspection),
     etat |-> Strip(post.etat),
     observations |-> Strip(post.observations)]

\* InspectionModificationRequest.objects.create(id_inspection, requested_by,
\* proposed_data): the other columns take the model's defaults.
NewRequest(id_inspection, user, proposed_data, now) ==
    [id_inspection |-> id_inspection,
     requested_by |-> user,
     requested_at |-> now,
     status |-> S_PENDING,
     reviewed_by |-> NoUser,
     reviewed_at |-> NoTime,
     admin_note |-> None,
     proposed_data |-> proposed_data]

\* One step of the view.  "check": the reads up to the method test;
\* "insert": the body of the try block.  fault: the statement raises.
inspection_request_edit(db, f, fault, now) ==
    IF f.pc = "check" THEN
        IF f.method \notin {"GET", "POST"} THEN Return(db, f, "405", "method")
        ELSE IF f.target \notin DOMAIN db.inspections THEN Return(db, f, "404", "not_found")
        ELSE IF NotOwner(db.inspections[f.target], f.user)
            THEN Return(db, f, "redirect inspection-detail", "not_owner")
        ELSE IF HasPending(db, f.target)
            THEN Return(db, f, "redirect inspection-detail", "pending_exists")
        ELSE IF f.method = "POST" THEN Goto(db, f, "insert")
        ELSE Return(db, f, "render inspection_edit_request", "form")
    ELSE \* "insert"
        IF fault THEN Return(db, f, "render inspection_edit_request error", "exception")
        ELSE Return(
            [db EXCEPT !.requests =
                Append(@, NewRequest(f.target, f.user, ProposedData(f.post), now))],
            f, "redirect inspection-detail", "created")

-----------------------------------------------------------------------------
(* Approve: inspection_request_approve *)

\* old_data: the inspection's fields as loaded from the database.
OldData(inspection) ==
    [date_inspection |-> DateV(inspection.date_inspection),
     etat |-> Str(inspection.etat),
     observations |-> Str(inspection.observations)]

\* Mutant: the UPDATE leaves the observations column out.
ApplyProposedKeepsObservations(inspection, proposed, now) ==
    [inspection EXCEPT
        !.date_inspection = DateIn(proposed.date_inspection).date,
        !.etat = proposed.etat,
        !.updated_at = now]

\* UPDATE inspection SET date_inspection = %s, etat = %s, observations = %s,
\* updated_at = NOW(): the row after the statement.
ApplyProposed(inspection, proposed, now) ==
    [inspection EXCEPT
        !.date_inspection = DateIn(proposed.date_inspection).date,
        !.etat = proposed.etat,
        !.observations = proposed.observations,
        !.updated_at = now]

\* Mutant: the reviewer is not recorded.
ReviewedWithoutReviewer(mod_request, status, user, now, post) ==
    [mod_request EXCEPT
        !.status = status,
        !.reviewed_at = now,
        !.admin_note = Str(Strip(post.admin_note))]

\* Mutant: the time of the review is not recorded.
ReviewedWithoutTime(mod_request, status, user, now, post) ==
    [mod_request EXCEPT
        !.status = status,
        !.reviewed_by = user,
        !.admin_note = Str(Strip(post.admin_note))]

\* The assignments to mod_request before mod_request.save().
Reviewed(mod_request, status, user, now, post) ==
    [mod_request EXCEPT
        !.status = status,
        !.reviewed_by = user,
        !.reviewed_at = now,
        !.admin_note = Str(Strip(post.admin_note))]

\* mod_request.save(): every column of the row is written from the object.
SaveRequest(db, id_request, mod_request) ==
    [db EXCEPT !.requests[id_request] = mod_request]

\* new_data of the review entry; the status word is kept as one token.
ReviewAuditData(mod_request) ==
    [status |-> Str(<<mod_request.status>>), admin_note |-> mod_request.admin_note]

\* Mutant: new_data holds the date as the UPDATE stored it, not as proposed.
ProposedAuditDataAsStored(proposed) ==
    [date_inspection |-> Str(IsoFormat(DateIn(proposed.date_inspection).date)),
     etat |-> Str(proposed.etat),
     observations |-> Str(proposed.observations)]

\* new_data of the UPDATE entry: proposed.get(...) of the three keys.
ProposedAuditData(proposed) ==
    [date_inspection |-> Str(proposed.date_inspection),
     etat |-> Str(proposed.etat),
     observations |-> Str(proposed.observations)]

\* One step of the view.  Every statement after the status test is inside
\* the try block: a statement that raises ends the view in the except branch.
inspection_request_approve(db, f, fault, now) ==
    IF f.pc = "fetch" THEN
        IF f.method # "POST" THEN Return(db, f, "405", "method")
        ELSE IF ~_is_admin(f.user) THEN Return(db, f, "redirect inspection-list", "not_admin")
        ELSE IF f.target \notin DOMAIN db.requests THEN Return(db, f, "404", "not_found")
        ELSE IF NotPending(db.requests[f.target])
            THEN Return(db, f, "redirect inspection-list", "not_pending")
        ELSE Goto(db, [f EXCEPT !.mod_request = db.requests[f.target]], "load_inspection")
    ELSE IF f.pc = "load_inspection" THEN
        Goto(db, [f EXCEPT !.old_data = OldData(db.inspections[f.mod_request.id_inspection])],
             "update")
    ELSE IF f.pc = "update" THEN
        IF fault \/ ~DateIn(f.mod_request.proposed_data.date_inspection).ok
        THEN Return(db, f, "redirect inspection-list", "exception")
        ELSE Goto([db EXCEPT !.inspections[f.mod_request.id_inspection] =
                        ApplyProposed(@, f.mod_request.proposed_data, now)],
                  f, "save")
    ELSE IF f.pc = "save" THEN
        IF fault THEN Return(db, f, "redirect inspection-list", "exception")
        ELSE LET m == Reviewed(f.mod_request, S_APPROVED, f.user, now, f.post)
             IN  Goto(SaveRequest(db, f.target, m), [f EXCEPT !.mod_request = m],
                      "audit_request")
    ELSE IF f.pc = "audit_request" THEN
        IF fault THEN Return(db, f, "redirect inspection-list", "exception")
        ELSE Goto(_log_audit(db, f.user, "REQUEST_APPROVE", "INSPECTION_REQUEST", f.target,
                             NoData, ReviewAuditData(f.mod_request), now),
                  f, "audit_inspection")
    ELSE \* "audit_inspection"
        IF fault THEN Return(db, f, "redirect inspection-list", "exception")
        ELSE Return(_log_audit(db, f.user, "UPDATE", "INSPECTION",
                               f.mod_request.id_inspection, f.old_data,
                               ProposedAuditData(f.mod_request.proposed_data), now),
                    f, "redirect inspection-detail", "approved")

-----------------------------------------------------------------------------
(* Reject: inspection_request_reject *)

\* One step of the view.  No statement is inside a try block: one that
\* raises ends the view with an unhandled exception (a 500 response).
inspection_request_reject(db, f, fault, now) ==
    IF f.pc = "fetch" THEN
        IF f.method # "POST" THEN Return(db, f, "405", "method")
        ELSE IF ~_is_admin(f.user) THEN Return(db, f, "redirect inspection-list", "not_admin")
        ELSE IF f.target \notin DOMAIN db.requests THEN Return(db, f, "404", "not_found")
        ELSE IF NotPending(db.requests[f.target])
            THEN Return(db, f, "redirect inspection-list", "not_pending")
        ELSE Goto(db, [f EXCEPT !.mod_request = db.requests[f.target]], "save")
    ELSE IF f.pc = "save" THEN
        IF fault THEN Return(db, f, "500", "exception")
        ELSE LET m == Reviewed(f.mod_request, S_REJECTED, f.user, now, f.post)
             IN  Goto(SaveRequest(db, f.target, m), [f EXCEPT !.mod_request = m], "audit_request")
    ELSE \* "audit_request"
        IF fault THEN Return(db, f, "500", "exception")
        ELSE Return(_log_audit(db, f.user, "REQUEST_REJECT", "INSPECTION_REQUEST", f.target,
                               NoData, ReviewAuditData(f.mod_request), now),
                    f, "redirect inspection-detail", "rejected")

-----------------------------------------------------------------------------
(* Initial state and inputs *)

UserNames == {"ins1", "ins2", "adm1", "root"}

\* One inspection recorded earlier through inspection_create by inspector
\* ins1; no modification request and no audit entry of the workflow yet.
InitInspections ==
    [i \in {1} |->
        [id_patrimoine |-> 1,
         id_inspecteur |-> "ins1",
         date_inspection |-> <<2024, 1, 5>>,
         etat |-> S_BON,
         observations |-> <<>>,
         updated_at |-> At(0)]]

\* One heritage site and one intervention on it, recorded by the superuser.
InitPatrimoines == [i \in {1} |-> [created_by |-> "root"]]

InitInterventions == [i \in {1} |-> [id_patrimoine |-> 1, created_by |-> "root"]]

\* A document is attached to a patrimoine, an inspection or an intervention
\* (0: the foreign key is NULL).  Document 1 was uploaded with inspection 1
\* by its inspector, documents 2 and 3 by the superuser.
InitDocuments ==
    [d \in {1, 2, 3} |->
        [uploaded_by |-> IF d = 1 THEN "ins1" ELSE "root",
         id_patrimoine |-> IF d = 2 THEN 1 ELSE 0,
         id_inspection |-> IF d = 1 THEN 1 ELSE 0,
         id_intervention |-> IF d = 3 THEN 1 ELSE 0,
         file_path |-> d]]

\* No dashboard request under way.
NoNav == [user |-> NoUser, url |-> "", page |-> "", trail |-> <<>>]

InitUsers ==
    [u \in UserNames |->
        [is_superuser |-> u = "root",
         email |-> u,
         groups |-> IF u \in {"ins1", "ins2"} THEN {"INSPECTEUR"}
                    ELSE IF u = "adm1" THEN {"ADMIN"} ELSE {}]]

Init ==
    /\ users = InitUsers
    /\ inspections = InitInspections
    /\ requests = <<>>
    /\ audit = <<>>
    /\ procs = [p \in Workers |-> Idle]
    /\ last = [op |-> "", exit |-> ""]
    /\ ncalls = 0
    /\ patrimoines = InitPatrimoines
    /\ interventions = InitInterventions
    /\ documents = InitDocuments
    /\ files = {documents[d].file_path : d \in DOMAIN documents}
    /\ nav = NoNav

\* What a client may post to request-edit: text as typed, not yet stripped.
SubmitPosts ==
    {[NoPost EXCEPT !.date_inspection = <<" ", "2", "0", "2", "4", "-", "0", "2", "-", "1", "0">>,
                    !.etat = S_DEGRADE,
                    !.observations = <<"c", "r", "a", "c", "k", " ">>],
     [NoPost EXCEPT !.date_inspection = <<"2", "0", "2", "4", "-", "3", "-", "1">>,
                    !.etat = S_MOYEN \o <<" ">>],
     [NoPost EXCEPT !.etat = S_BON]}

\* What a reviewer may post to approve/ and reject/.
ReviewPosts ==
    {[NoPost EXCEPT !.admin_note = <<" ", "o", "k">>]}

\* A call's method and form data: a GET carries no form.
SubmitForms == {<<"GET", NoPost>>} \cup {<<"POST", post>> : post \in SubmitPosts}
ReviewForms == {<<"GET", NoPost>>} \cup {<<"POST", post>> : post \in ReviewPosts}

\* Identifiers a URL may carry: those of the rows, and one of no row.
InspectionIds == DOMAIN inspections \cup {2}
RequestIds == 1..(Len(requests) + 1)

-----------------------------------------------------------------------------
(* Actions *)

\* The reading of timezone.now() and NOW(): one instant, later than the
\* inspection's creation.
Clock == At(1)

view(db, f, fault, now) ==
    IF f.op = "submit" THEN inspection_request_edit(db, f, fault, now)
    ELSE IF f.op = "approve" THEN inspection_request_approve(db, f, fault, now)
    ELSE inspection_request_reject(db, f, fault, now)

Frame(op, user, target, method, post) ==
    [Idle EXCEPT !.op = op, !.user = user, !.target = target,
                 !.method = method, !.post = post,
                 !.pc = IF op = "submit" THEN "check" ELSE "fetch"]

Returned(f) == [op |-> f.op, exit |-> f.exit]

\* The state after worker p's view made the step with result r.
Commit(p, r) ==
    /\ inspections' = r.db.inspections
    /\ requests' = r.db.requests
    /\ audit' = r.db.audit
    /\ IF r.f.pc = "done"
       THEN procs' = [procs EXCEPT ![p] = Idle] /\ last' = Returned(r.f)
       ELSE procs' = [procs EXCEPT ![p] = r.f] /\ last' = last
    /\ UNCHANGED <<users, Records, nav>>

\* The Submit calls among the frames P that are about to insert a row.
Inserting(P) == {q \in Workers : P[q].op = "submit" /\ P[q].pc = "insert"}

\* A request arrives and is taken by the first free worker; its view runs
\* up to its first read of the workflow tables.
Arrive(p, op, user, target, method, post) ==
    /\ ncalls < MaxCalls
    /\ ncalls' = ncalls + 1
    /\ procs[p].pc = "idle"
    /\ \A q \in Workers : q < p => procs[q].pc # "idle"
    /\ Commit(p, view(DB, Frame(op, user, target, method, post), FALSE, Clock))

SubmitCall(p) ==
    /\ \E user \in UserNames, target \in InspectionIds, form \in SubmitForms :
        Arrive(p, "submit", user, target, form[1], form[2])
    /\ Len(requests') + Cardinality(Inserting(procs')) <= MaxRequests

ApproveCall(p) ==
    \E user \in UserNames, target \in RequestIds, form \in ReviewForms :
        Arrive(p, "approve", user, target, form[1], form[2])

RejectCall(p) ==
    \E user \in UserNames, target \in RequestIds, form \in ReviewForms :
        Arrive(p, "reject", user, target, form[1], form[2])

\* The running view of worker p executes its next statement.
Step(p) ==
    /\ procs[p].pc # "idle"
    /\ Commit(p, view(DB, procs[p], FALSE, Clock))
    /\ UNCHANGED ncalls

Next ==
    \E p \in Workers : SubmitCall(p) \/ ApproveCall(p) \/ RejectCall(p) \/ Step(p)

Spec == Init /\ [][Next]_vars

-----------------------------------------------------------------------------
(* One request at a time: a view call runs to its return before the next. *)

\* The view run to its return; its k-th statement raises (k = 0: none does).
RECURSIVE RunView(_, _, _, _)
RunView(db, f, k, now) ==
    IF f.pc = "done" THEN [db |-> db, f |-> f]
    ELSE LET r == view(db, f, k = 1, now) IN RunView(r.db, r.f, k - 1, now)

\* The call served from arrival to return, with the statement that raises.
Served(op, user, target, method, post, k) ==
    LET r == RunView(DB, Frame(op, user, target, method, post), k, Clock)
    IN  /\ inspections' = r.db.inspections
        /\ requests' = r.db.requests
        /\ audit' = r.db.audit
        /\ last' = Returned(r.f)
        /\ UNCHANGED <<users, Records>>

ServeWith(op, user, target, method, post, k) ==
    /\ Served(op, user, target, method, post, k)
    /\ UNCHANGED <<procs, ncalls, nav>>

Serve(op, user, target, method, post) == ServeWith(op, user, target, method, post, 0)

SeqSubmit ==
    /\ \E user \in UserNames, target \in InspectionIds, form \in SubmitForms :
        Serve("submit", user, target, form[1], form[2])
    /\ Len(requests') <= MaxRequests

SeqApprove ==
    \E user \in UserNames, target \in RequestIds, form \in ReviewForms :
        Serve("approve", user, target, form[1], form[2])

SeqReject ==
    \E user \in UserNames, target \in RequestIds, form \in ReviewForms :
        Serve("reject", user, target, form[1], form[2])

SeqNext == SeqSubmit \/ SeqApprove \/ SeqReject

SeqSpec == Init /\ [][SeqNext]_vars

-----------------------------------------------------------------------------
(* One request at a time, and a statement that writes to the database may   *)
(* raise (a lost connection, a statement timeout, a constraint violation).  *)

\* The statements of a view that write to the database, by position.
Writes(op) ==
    IF op = "submit" THEN {2} ELSE IF op = "approve" THEN {3, 4, 5, 6} ELSE {2, 3}

ServeOrFail(op, user, target, method, post) ==
    \E k \in {0} \cup Writes(op) : ServeWith(op, user, target, method, post, k)

FaultSubmit ==
    /\ \E user \in UserNames, target \in InspectionIds, form \in SubmitForms :
        ServeOrFail("submit", user, target, form[1], form[2])
    /\ Len(requests') <= MaxRequests

FaultApprove ==
    \E user \in UserNames, target \in RequestIds, form \in ReviewForms :
        ServeOrFail("approve", user, target, form[1], form[2])

FaultReject ==
    \E user \in UserNames, target \in RequestIds, form \in ReviewForms :
        ServeOrFail("reject", user, target, form[1], form[2])

FaultNext == FaultSubmit \/ FaultApprove \/ FaultReject

FaultSpec == Init /\ [][FaultNext]_vars

-----------------------------------------------------------------------------
(* User management (superuser only): user_management, edit_user,            *)
(* toggle_user_group, update_user_email, delete_user.  A user is known by   *)
(* its key; the username and password columns are left out, and an e-mail   *)
(* address is a token (the posted one is taken as already stripped and      *)
(* lower-cased).                                                            *)

Groups == {"ADMIN", "INSPECTEUR"}

Roles == {"ADMIN", "INSPECTEUR", "PUBLIC"}

\* The view returned through the return statement `exit`.
Done(op, exit) == last' = [op |-> op, exit |-> exit]

\* The tables of the modification-request workflow are left as they are.
SameWorkflow == UNCHANGED <<inspections, requests, audit>>

\* A view that returns without writing.
NoWrite(op, exit) == Done(op, exit) /\ SameWorkflow /\ UNCHANGED <<users, Records>>

EmailTaken(email, except) == \E u \in DOMAIN users \ {except} : users[u].email = email

\* new_user.groups.add(...) / target_user.groups.add(...) for a role.
RoleGroups(role) == IF role = "PUBLIC" THEN {} ELSE {role}

AppendAudit(actor, action, entity_type, entity_id, old_data, new_data) ==
    audit' = _log_audit(DB, actor, action, entity_type, entity_id,
                        old_data, new_data, Clock).audit

\* user_management: the page, and on POST the creation of user new_user.
user_management(caller, method, email, role, new_user) ==
    IF ~users[caller].is_superuser THEN NoWrite("user_management", "not_superuser")
    ELSE IF method # "POST" THEN NoWrite("user_management", "page")
    ELSE IF email = "" THEN NoWrite("user_management", "missing_field")
    ELSE IF role \notin Roles THEN NoWrite("user_management", "bad_role")
    ELSE IF EmailTaken(email, NoUser) THEN NoWrite("user_management", "email_taken")
    ELSE IF new_user \in DOMAIN users THEN NoWrite("user_management", "username_taken")
    ELSE /\ users' = [u \in DOMAIN users \cup {new_user} |->
                        IF u = new_user
                        THEN [is_superuser |-> FALSE, email |-> email,
                              groups |-> RoleGroups(role)]
                        ELSE users[u]]
         /\ AppendAudit(caller, "CREATE", "USER", new_user, NoData,
                        [email |-> Str(<<email>>), role |-> Str(<<role>>)])
         /\ Done("user_management", "created")
         /\ UNCHANGED <<inspections, requests, Records>>

\* edit_user: on POST the e-mail is replaced and the groups are cleared and
\* set from the role.
edit_user(caller, user_id, method, email, role) ==
    IF ~users[caller].is_superuser THEN NoWrite("edit_user", "not_superuser")
    ELSE IF user_id \notin DOMAIN users THEN NoWrite("edit_user", "not_found")
    ELSE IF method # "POST" THEN NoWrite("edit_user", "form")
    ELSE IF email = "" THEN NoWrite("edit_user", "missing_field")
    ELSE IF role \notin Roles THEN NoWrite("edit_user", "bad_role")
    ELSE IF EmailTaken(email, user_id) THEN NoWrite("edit_user", "email_taken")
    ELSE /\ users' = [users EXCEPT ![user_id].email = email,
                                   ![user_id].groups = RoleGroups(role)]
         /\ Done("edit_user", "edited")
         /\ SameWorkflow
         /\ UNCHANGED Records

\* Mutant: the toggle only ever adds the group.
ToggledOnlyAdds(groups, group_name) == groups \cup {group_name}

\* user.groups.remove(group) if the user is in it, else user.groups.add(group)
Toggled(groups, group_name) ==
    IF group_name \in groups THEN groups \ {group_name} ELSE groups \cup {group_name}

toggle_user_group(caller, user_id, method, group_name) ==
    IF method # "POST" THEN NoWrite("toggle_user_group", "method")
    ELSE IF ~users[caller].is_superuser THEN NoWrite("toggle_user_group", "not_superuser")
    ELSE IF user_id \notin DOMAIN users \/ group_name \notin Groups
         THEN NoWrite("toggle_user_group", "not_found")
    ELSE /\ users' = [users EXCEPT ![user_id].groups = Toggled(@, group_name)]
         /\ Done("toggle_user_group", "toggled")
         /\ SameWorkflow
         /\ UNCHANGED Records

update_user_email(caller, user_id, method, email) ==
    IF method # "POST" THEN NoWrite("update_user_email", "method")
    ELSE IF ~users[caller].is_superuser THEN NoWrite("update_user_email", "not_superuser")
    ELSE IF user_id \notin DOMAIN users THEN NoWrite("update_user_email", "not_found")
    ELSE IF email = "" THEN NoWrite("update_user_email", "invalid")
    ELSE IF EmailTaken(email, user_id) THEN NoWrite("update_user_email", "email_taken")
    ELSE /\ users' = [users EXCEPT ![user_id].email = email]
         /\ Done("update_user_email", "updated")
         /\ SameWorkflow
         /\ UNCHANGED Records

\* The rows that reference the user through a foreign key with
\* on_delete=PROTECT: user.delete() raises ProtectedError if there is one.
Protected(user) ==
    \/ \E i \in DOMAIN inspections : inspections[i].id_inspecteur = user
    \/ \E r \in DOMAIN requests : requests[r].requested_by = user
    \/ \E i \in DOMAIN patrimoines : patrimoines[i].created_by = user
    \/ \E i \in DOMAIN interventions : interventions[i].created_by = user
    \/ \E d \in DOMAIN documents : documents[d].uploaded_by = user

\* reviewed_by has on_delete=SET_NULL.
ReviewerSetNull(reqs, user) ==
    [r \in DOMAIN reqs |->
        IF reqs[r].reviewed_by = user THEN [reqs[r] EXCEPT !.reviewed_by = NoUser]
        ELSE reqs[r]]

\* The audit_log rows after the deletion of a user: entries are never
\* mutated or deleted after creation.
AuditAfterUserDelete(log, user) == log

\* delete_user: the audit entry is written first, then user.delete().
delete_user(caller, user_id, method) ==
    IF method # "POST" THEN NoWrite("delete_user", "method")
    ELSE IF ~users[caller].is_superuser THEN NoWrite("delete_user", "not_superuser")
    ELSE IF user_id \notin DOMAIN users THEN NoWrite("delete_user", "not_found")
    ELSE IF user_id = caller THEN NoWrite("delete_user", "self")
    ELSE IF users[user_id].is_superuser THEN NoWrite("delete_user", "superuser")
    ELSE LET logged == _log_audit(DB, caller, "DELETE", "USER", user_id,
                           [email |-> Str(<<users[user_id].email>>),
                            groups |-> [t |-> "list", v |-> users[user_id].groups]],
                           NoData, Clock).audit
         IN  IF Protected(user_id)
             THEN /\ audit' = logged
                  /\ Done("delete_user", "error")
                  /\ UNCHANGED <<users, inspections, requests, Records>>
             ELSE /\ audit' = AuditAfterUserDelete(logged, user_id)
                  /\ users' = [u \in DOMAIN users \ {user_id} |-> users[u]]
                  /\ requests' = ReviewerSetNull(requests, user_id)
                  /\ Done("delete_user", "deleted")
                  /\ UNCHANGED <<inspections, Records>>

-----------------------------------------------------------------------------
(* inspection_create *)

\* Mutant: the superuser may add inspections too.
_can_add_inspection_or_superuser(user) ==
    users[user].is_superuser \/ "INSPECTEUR" \in users[user].groups

\* Mutant: membership of any group is enough.
_can_add_inspection_any_group(user) == users[user].groups # {}

\* _can_add_inspection(user)
_can_add_inspection(user) == "INSPECTEUR" \in users[user].groups

\* The next value of an AutoField's sequence.
NextId(ids) == IF ids = {} THEN 1 ELSE (CHOOSE i \in ids : \A j \in ids : j <= i) + 1

\* inspection_create: post = [id_patrimoine, form]; upload: one file comes
\* with the form.
inspection_create(caller, method, post, upload) ==
    LET date == Strip(post.form.date_inspection)
        etat == Strip(post.form.etat)
        observations == Strip(post.form.observations)
        id_inspection == NextId(DOMAIN inspections)
        id_document == NextId(DOMAIN documents)
        row == [id_patrimoine |-> post.id_patrimoine,
                id_inspecteur |-> caller,
                date_inspection |-> DateIn(date).date,
                etat |-> etat,
                observations |-> observations,
                updated_at |-> Clock]
        doc == [uploaded_by |-> caller, id_patrimoine |-> 0,
                id_inspection |-> id_inspection, id_intervention |-> 0,
                file_path |-> id_document]
    IN  IF ~_can_add_inspection(caller) THEN NoWrite("inspection_create", "not_inspecteur")
        ELSE IF method # "POST" THEN NoWrite("inspection_create", "form")
        ELSE IF post.id_patrimoine \notin DOMAIN patrimoines \/ ~DateIn(date).ok
             THEN NoWrite("inspection_create", "exception")
        ELSE /\ inspections' = [i \in DOMAIN inspections \cup {id_inspection} |->
                                   IF i = id_inspection THEN row ELSE inspections[i]]
             /\ IF upload
                THEN /\ documents' = [d \in DOMAIN documents \cup {id_document} |->
                                         IF d = id_document THEN doc ELSE documents[d]]
                     /\ files' = files \cup {id_document}
                ELSE UNCHANGED <<documents, files>>
             /\ AppendAudit(caller, "CREATE", "INSPECTION", id_inspection, NoData,
                    [id_patrimoine |-> Str(<<post.id_patrimoine>>),
                     date_inspection |-> Str(date),
                     etat |-> Str(etat),
                     observations |-> Str(observations)])
             /\ Done("inspection_create", "created")
             /\ UNCHANGED <<users, requests, patrimoines, interventions>>

-----------------------------------------------------------------------------
(* AdminSpec: one request at a time; the workflow views, inspection_create  *)
(* and the user management views, called by any user on any target.  It     *)
(* starts when inspector ins1 has submitted a modification request for      *)
(* inspection 1.                                                            *)

AdminInit ==
    /\ users = InitUsers
    /\ inspections = InitInspections
    /\ requests = <<NewRequest(1, "ins1",
                       ProposedData(CHOOSE post \in SubmitPosts : post.etat = S_DEGRADE),
                       Clock)>>
    /\ audit = <<>>
    /\ procs = [p \in Workers |-> Idle]
    /\ last = [op |-> "submit", exit |-> "created"]
    /\ ncalls = 0
    /\ patrimoines = InitPatrimoines
    /\ interventions = InitInterventions
    /\ documents = InitDocuments
    /\ files = {documents[d].file_path : d \in DOMAIN documents}
    /\ nav = NoNav

Methods == {"GET", "POST"}

\* Identifiers a URL or a form may carry: those of the rows, and one of no row.
UserIds == DOMAIN users \cup {"ghost"}

Emails == {"", "ins1", "fresh"}

RoleNames == Roles \cup {"EDITEUR"}

GroupNames == Groups \cup {"EDITEUR"}

\* A form whose etat is none of the choices of the select box.
OtherEtatPost ==
    [NoPost EXCEPT !.date_inspection = <<"2", "0", "2", "4", "-", "0", "2", "-", "1", "0">>,
                   !.etat = <<"R", "U", "I", "N", "E">>]

CreatePosts ==
    {[id_patrimoine |-> i, form |-> post] : i \in {1, 2}, post \in SubmitPosts \cup {OtherEtatPost}}

\* One more request is served.
Tick == ncalls < MaxOps /\ ncalls' = ncalls + 1 /\ UNCHANGED <<procs, nav>>

DoSubmit ==
    /\ Tick
    /\ \E user \in DOMAIN users, target \in InspectionIds, form \in SubmitForms :
        Served("submit", user, target, form[1], form[2], 0)

DoApprove ==
    /\ Tick
    /\ \E user \in DOMAIN users, target \in RequestIds, form \in ReviewForms :
        Served("approve", user, target, form[1], form[2], 0)

DoReject ==
    /\ Tick
    /\ \E user \in DOMAIN users, target \in RequestIds, form \in ReviewForms :
        Served("reject", user, target, form[1], form[2], 0)

DoInspectionCreate ==
    /\ Tick
    /\ \E caller \in DOMAIN users, method \in Methods, post \in CreatePosts, upload \in BOOLEAN :
        inspection_create(caller, method, post, upload)

DoUserManagement ==
    /\ Tick
    /\ \E caller \in DOMAIN users, method \in Methods, email \in Emails, role \in RoleNames :
        user_management(caller, method, email, role, "usr5")

DoEditUser ==
    /\ Tick
    /\ \E caller \in DOMAIN users, user_id \in UserIds, method \in Methods,
          email \in Emails, role \in RoleNames :
        edit_user(caller, user_id, method, email, role)

DoToggleUserGroup ==
    /\ Tick
    /\ \E caller \in DOMAIN users, user_id \in UserIds, method \in Methods,
          group_name \in GroupNames :
        toggle_user_group(caller, user_id, method, group_name)

DoUpdateUserEmail ==
    /\ Tick
    /\ \E caller \in DOMAIN users, user_id \in UserIds, method \in Methods, email \in Emails :
        update_user_email(caller, user_id, method, email)

DoDeleteUser ==
    /\ Tick
    /\ \E caller \in DOMAIN users, user_id \in UserIds, method \in Methods :
        delete_user(caller, user_id, method)

AdminNext ==
    \/ DoSubmit \/ DoApprove \/ DoReject \/ DoInspectionCreate
    \/ DoUserManagement \/ DoEditUser \/ DoToggleUserGroup \/ DoUpdateUserEmail
    \/ DoDeleteUser

AdminSpec == AdminInit /\ [][AdminNext]_vars

-----------------------------------------------------------------------------
(* Deletion of patrimoines, interventions and documents.  DocSpec: one      *)
(* request at a time, by any user on any row, with group toggles between.   *)

\* _can_edit(user)
_can_edit(user) == users[user].is_superuser \/ "ADMIN" \in users[user].groups

\* Mutant: every inspector may delete any document.
CreatorOrAdminOrInspecteur(user, document) ==
    \/ users[user].is_superuser
    \/ "ADMIN" \in users[user].groups
    \/ "INSPECTEUR" \in users[user].groups
    \/ document.uploaded_by = user

\* document_delete's test: only creator, admin, or superadmin can delete.
CreatorOrAdmin(user, document) ==
    \/ users[user].is_superuser
    \/ "ADMIN" \in users[user].groups
    \/ document.uploaded_by = user

\* The table without the rows ids.
Without(table, ids) == [i \in DOMAIN table \ ids |-> table[i]]

\* The rows that go with their parents through on_delete=CASCADE.
InspectionsOf(id_patrimoines) ==
    {i \in DOMAIN inspections : inspections[i].id_patrimoine \in id_patrimoines}

InterventionsOf(id_patrimoines) ==
    {i \in DOMAIN interventions : interventions[i].id_patrimoine \in id_patrimoines}

DocumentsOf(id_patrimoines, id_inspections, id_interventions) ==
    {d \in DOMAIN documents :
        \/ documents[d].id_patrimoine \in id_patrimoines
        \/ documents[d].id_inspection \in id_inspections
        \/ documents[d].id_intervention \in id_interventions}

RequestsWithout(id_inspections) ==
    SelectSeq(requests, LAMBDA r : r.id_inspection \notin id_inspections)

\* A nullable foreign key in an audit snapshot.
KeyOrNone(id) == IF id = 0 THEN None ELSE Str(<<id>>)

\* patrimoine_delete: superuser only; the inspections, interventions,
\* documents and modification requests of the patrimoine go with it, the
\* stored files stay.  The columns of its old_data are not modelled.
patrimoine_delete(caller, id_patrimoine, method) ==
    IF method # "POST" THEN NoWrite("patrimoine_delete", "method")
    ELSE IF ~users[caller].is_superuser THEN NoWrite("patrimoine_delete", "not_superuser")
    ELSE IF id_patrimoine \notin DOMAIN patrimoines THEN NoWrite("patrimoine_delete", "not_found")
    ELSE LET id_inspections == InspectionsOf({id_patrimoine})
             id_interventions == InterventionsOf({id_patrimoine})
         IN  /\ patrimoines' = Without(patrimoines, {id_patrimoine})
             /\ inspections' = Without(inspections, id_inspections)
             /\ interventions' = Without(interventions, id_interventions)
             /\ documents' = Without(documents,
                    DocumentsOf({id_patrimoine}, id_inspections, id_interventions))
             /\ requests' = RequestsWithout(id_inspections)
             /\ AppendAudit(caller, "DELETE", "PATRIMOINE", id_patrimoine, NoData, NoData)
             /\ Done("patrimoine_delete", "deleted")
             /\ UNCHANGED <<users, files>>

\* intervention_delete: superuser or ADMIN; its documents go with it.
intervention_delete(caller, id_intervention, method) ==
    IF method # "POST" THEN NoWrite("intervention_delete", "method")
    ELSE IF ~_can_edit(caller) THEN NoWrite("intervention_delete", "not_allowed")
    ELSE IF id_intervention \notin DOMAIN interventions
         THEN NoWrite("intervention_delete", "not_found")
    ELSE /\ interventions' = Without(interventions, {id_intervention})
         /\ documents' = Without(documents, DocumentsOf({}, {}, {id_intervention}))
         /\ AppendAudit(caller, "DELETE", "INTERVENTION", id_intervention,
                [id_patrimoine |-> Str(<<interventions[id_intervention].id_patrimoine>>)],
                NoData)
         /\ Done("intervention_delete", "deleted")
         /\ UNCHANGED <<users, inspections, requests, patrimoines, files>>

\* document_delete.  The refusal redirects to the page of the document's
\* patrimoine: document.id_patrimoine.id_patrimoine raises AttributeError
\* when the document has none, and nothing catches it ("error").
document_delete(caller, id_document, method) ==
    IF method # "POST" THEN NoWrite("document_delete", "method")
    ELSE IF id_document \notin DOMAIN documents THEN NoWrite("document_delete", "not_found")
    ELSE LET document == documents[id_document]
         IN  IF ~CreatorOrAdmin(caller, document)
             THEN IF document.id_patrimoine = 0
                  THEN NoWrite("document_delete", "error")
                  ELSE NoWrite("document_delete", "refused")
             ELSE /\ files' = files \ {document.file_path}
                  /\ documents' = Without(documents, {id_document})
                  /\ AppendAudit(caller, "DELETE", "DOCUMENT", id_document,
                         [id_patrimoine |-> KeyOrNone(document.id_patrimoine),
                          id_inspection |-> KeyOrNone(document.id_inspection),
                          id_intervention |-> KeyOrNone(document.id_intervention)],
                         NoData)
                  /\ Done("document_delete", "deleted")
                  /\ UNCHANGED <<users, inspections, requests, patrimoines, interventions>>

\* Identifiers a URL may carry: those of the initial rows, and one of no row.
RowIds(table) == DOMAIN table \cup {NextId(DOMAIN table)}

DoPatrimoineDelete ==
    /\ Tick
    /\ \E caller \in DOMAIN users, id_patrimoine \in RowIds(InitPatrimoines),
          method \in Methods :
        patrimoine_delete(caller, id_patrimoine, method)

DoInterventionDelete ==
    /\ Tick
    /\ \E caller \in DOMAIN users, id_intervention \in RowIds(InitInterventions),
          method \in Methods :
        intervention_delete(caller, id_intervention, method)

DoDocumentDelete ==
    /\ Tick
    /\ \E caller \in DOMAIN users, id_document \in RowIds(InitDocuments),
          method \in Methods :
        document_delete(caller, id_document, method)

DocNext ==
    \/ DoPatrimoineDelete \/ DoInterventionDelete \/ DoDocumentDelete
    \/ DoToggleUserGroup

DocSpec == Init /\ [][DocNext]_vars

-----------------------------------------------------------------------------
(* AuditSpec: _log_audit called once, on an empty log, with snapshots of     *)
(* every kind of value.                                                     *)

\* The values a snapshot holds: None, text, dates (one before the year 1000,
\* one on a leap day), a datetime, Decimals (one with a trailing zero), an
\* integer and a list of names.
AuditValues ==
    {None, Str(<<"B", "O", "N">>),
     DateV(<<987, 12, 1>>), DateV(<<2024, 2, 29>>),
     DateTimeV(<<2024, 3, 1, 9, 5, 0>>),
     DecimalV(<<150, 2>>), DecimalV(<<7, 0>>),
     IntV(7), [t |-> "list", v |-> {"ADMIN"}]}

AuditKeys == {"date_debut", "file_size_mb"}

\* The mappings passed as old_data or new_data: None, and every mapping of
\* one or two keys.
AuditInputs ==
    {NoData} \cup UNION {[K -> AuditValues] : K \in (SUBSET AuditKeys) \ {{}}}

\* What the other of old_data and new_data is: None, or one plain value.
OtherInputs == {NoData, [statut |-> IntV(1)]}

LogAudit ==
    /\ audit = <<>>
    /\ \E data \in AuditInputs, other \in OtherInputs :
        \/ AppendAudit("root", "UPDATE", "INTERVENTION", 1, data, other)
        \/ AppendAudit("root", "UPDATE", "INTERVENTION", 1, other, data)
    /\ Done("_log_audit", "created")
    /\ UNCHANGED <<users, inspections, requests, Records, procs, ncalls, nav>>

AuditNext == LogAudit

AuditSpec == Init /\ [][AuditNext]_vars

-----------------------------------------------------------------------------
(* Role resolution and the dashboards (core/views.py).  RoleSpec: a logged- *)
(* in user, with any superuser flag and any group memberships, requests a   *)
(* dashboard URL and the browser follows the redirects.                     *)

\* Mutant: the INSPECTEUR group is tested before the ADMIN group.
_user_role_inspecteur_first(user) ==
    IF users[user].is_superuser THEN "superadmin"
    ELSE IF "INSPECTEUR" \in users[user].groups THEN "inspecteur"
    ELSE IF "ADMIN" \in users[user].groups THEN "admin"
    ELSE "public"

\* _user_role(user)
_user_role(user) ==
    IF users[user].is_superuser THEN "superadmin"
    ELSE IF "ADMIN" \in users[user].groups THEN "admin"
    ELSE IF "INSPECTEUR" \in users[user].groups THEN "inspecteur"
    ELSE "public"

DashboardUrls ==
    {"dashboard", "dashboard-superadmin", "dashboard-admin",
     "dashboard-inspecteur", "dashboard-public"}

\* The view at nav.url is being requested.
Requested(url) == nav.url = url /\ nav.page = ""

\* return redirect(url): the browser requests url next.
Redirect(url) ==
    /\ nav' = [nav EXCEPT !.url = url, !.trail = Append(@, nav.url)]
    /\ UNCHANGED <<users, inspections, requests, audit, procs, last, ncalls, Records>>

\* return render(request, template)
Render(template) ==
    /\ nav' = [nav EXCEPT !.page = template, !.trail = Append(@, nav.url)]
    /\ UNCHANGED <<users, inspections, requests, audit, procs, last, ncalls, Records>>

dashboard_router_view ==
    /\ Requested("dashboard")
    /\ LET role == _user_role(nav.user)
       IN  IF role = "superadmin" THEN Redirect("dashboard-superadmin")
           ELSE IF role = "admin" THEN Redirect("dashboard-admin")
           ELSE IF role = "inspecteur" THEN Redirect("dashboard-inspecteur")
           ELSE Redirect("dashboard-public")

superadmin_view ==
    /\ Requested("dashboard-superadmin")
    /\ IF ~users[nav.user].is_superuser THEN Redirect("dashboard")
       ELSE Render("core/dashboard_superadmin.html")

admin_view ==
    /\ Requested("dashboard-admin")
    /\ IF users[nav.user].is_superuser THEN Redirect("dashboard-superadmin")
       ELSE IF "ADMIN" \notin users[nav.user].groups THEN Redirect("dashboard")
       ELSE Render("core/dashboard_admin.html")

\* Mutant: the inspector dashboard does not send ADMIN-group members away.
inspecteur_view_without_admin_test ==
    /\ Requested("dashboard-inspecteur")
    /\ IF users[nav.user].is_superuser THEN Redirect("dashboard-superadmin")
       ELSE IF "INSPECTEUR" \notin users[nav.user].groups THEN Redirect("dashboard")
       ELSE Render("core/dashboard_inspecteur.html")

inspecteur_view ==
    /\ Requested("dashboard-inspecteur")
    /\ IF users[nav.user].is_superuser THEN Redirect("dashboard-superadmin")
       ELSE IF "ADMIN" \in users[nav.user].groups THEN Redirect("dashboard-admin")
       ELSE IF "INSPECTEUR" \notin users[nav.user].groups THEN Redirect("dashboard")
       ELSE Render("core/dashboard_inspecteur.html")

public_dashboard_view ==
    /\ Requested("dashboard-public")
    /\ IF users[nav.user].is_superuser \/ users[nav.user].groups \cap {"ADMIN", "INSPECTEUR"} # {}
       THEN Redirect("dashboard")
       ELSE Render("core/dashboard_public.html")

\* One user has any superuser flag and any group memberships; a logged-in
\* user requests one of the dashboard URLs.
RoleInit ==
    /\ \E u \in UserNames, su \in BOOLEAN, g \in SUBSET Groups :
        users = [InitUsers EXCEPT ![u].is_superuser = su, ![u].groups = g]
    /\ \E u \in UserNames, url \in DashboardUrls :
        nav = [user |-> u, url |-> url, page |-> "", trail |-> <<>>]
    /\ inspections = InitInspections
    /\ requests = <<>>
    /\ audit = <<>>
    /\ procs = [p \in Workers |-> Idle]
    /\ last = [op |-> "", exit |-> ""]
    /\ ncalls = 0
    /\ patrimoines = InitPatrimoines
    /\ interventions = InitInterventions
    /\ documents = InitDocuments
    /\ files = {documents[d].file_path : d \in DOMAIN documents}

RoleNext ==
    \/ dashboard_router_view
    \/ superadmin_view
    \/ admin_view
    \/ inspecteur_view
    \/ public_dashboard_view

\* The browser follows every redirect it is sent.
RoleSpec == RoleInit /\ [][RoleNext]_vars /\ WF_vars(RoleNext)

-----------------------------------------------------------------------------
(* Claims *)

Workflow == <<inspections, requests, audit>>

\* C1: for every Inspection at most one modification request targeting it
\* is PENDING, in every reachable state, also when Submit calls on the same
\* Inspection overlap (the PENDING test and the insert are separate steps).
C1_AtMostOnePending ==
    \A i \in DOMAIN inspections : Cardinality(PendingRequests(DB, i)) <= 1

\* C2: once a request is APPROVED or REJECTED, its status, reviewed_by,
\* reviewed_at and admin_note never change again, also when reviews of the
\* same request overlap.
C2_ReviewedIsTerminal ==
    [][\A r \in DOMAIN requests :
          requests[r].status \in {S_APPROVED, S_REJECTED}
          => /\ requests'[r].status = requests[r].status
             /\ requests'[r].reviewed_by = requests[r].reviewed_by
             /\ requests'[r].reviewed_at = requests[r].reviewed_at
             /\ requests'[r].admin_note = requests[r].admin_note]_vars

\* A review call of worker p that has read the request as PENDING and has
\* not yet saved it.
ReviewInFlight(p) ==
    /\ procs[p].op \in {"approve", "reject"}
    /\ procs[p].pc \in {"load_inspection", "update", "save"}

\* C3: when two reviews of the same PENDING request overlap, only the first
\* to commit takes effect: once the request is no longer PENDING in the
\* database, a step of the other reviewer's call changes neither the request,
\* nor the Inspection, nor the audit log.
C3_SecondReviewNoOp ==
    [][\A p \in Workers :
          (/\ ReviewInFlight(p)
           /\ requests[procs[p].target].status # S_PENDING
           /\ procs'[p] # procs[p])
          => UNCHANGED Workflow]_vars

\* The two audit entries of an approved request r are in the log.
ApprovalAudited(r) ==
    /\ \E a \in DOMAIN audit :
        /\ audit[a].action = "REQUEST_APPROVE"
        /\ audit[a].entity_type = "INSPECTION_REQUEST"
        /\ audit[a].entity_id = r
    /\ \E a \in DOMAIN audit :
        /\ audit[a].action = "UPDATE"
        /\ audit[a].entity_type = "INSPECTION"
        /\ audit[a].entity_id = requests[r].id_inspection

\* C4: Approve is all-or-nothing: an Approve call in which a statement
\* raises leaves the Inspection, the request and the audit log as they were,
\* and no request is APPROVED while one of its two audit entries is missing.
C4_ApproveAllOrNothing ==
    /\ [](\A r \in DOMAIN requests : requests[r].status = S_APPROVED => ApprovalAudited(r))
    /\ [][(last'.op = "approve" /\ last'.exit = "exception") => UNCHANGED Workflow]_vars

\* The audit entries of the step that are new, by index in audit'.
NewAudit == {a \in DOMAIN audit' : a > Len(audit)}

AuditAppended(n) == Len(audit') = Len(audit) + n /\ SubSeq(audit', 1, Len(audit)) = audit

C6_RejectFrame ==
    [][\A user \in UserNames, target \in DOMAIN requests, post \in ReviewPosts :
          (/\ Serve("reject", user, target, "POST", post)
           /\ users[user].is_superuser \/ "ADMIN" \in users[user].groups
           /\ requests[target].status = S_PENDING)
          => /\ inspections' = inspections
             /\ requests'[target].status = S_REJECTED
             /\ requests'[target].reviewed_by = user
             /\ AuditAppended(1)
             /\ audit'[Len(audit')].action = "REQUEST_REJECT"
             /\ audit'[Len(audit')].entity_type = "INSPECTION_REQUEST"
             /\ audit'[Len(audit')].entity_id = target]_vars

\* A Reject by the ADMIN-group member has returned through its success redirect.
C6_Witness ==
    /\ last = [op |-> "reject", exit |-> "rejected"]
    /\ \E r \in DOMAIN requests :
        requests[r].status = S_REJECTED /\ requests[r].reviewed_by = "adm1"

\* C7: an Approve or Reject of a request that is already APPROVED or
\* REJECTED, one call at a time, changes neither the request, nor the
\* Inspection, nor the audit log, and returns through a redirect, not an error.
C7_ReviewOfReviewedNoOp ==
    [][\A op \in {"approve", "reject"}, user \in UserNames, target \in DOMAIN requests,
          form \in ReviewForms :
          (/\ Serve(op, user, target, form[1], form[2])
           /\ requests[target].status \in {S_APPROVED, S_REJECTED})
          => /\ UNCHANGED Workflow
             /\ last'.exit # "exception"
             /\ (form[1] = "POST" /\ (users[user].is_superuser \/ "ADMIN" \in users[user].groups))
                    => last'.exit = "not_pending"]_vars

\* A review of an already reviewed request has been refused.
C7_Witness ==
    /\ last.op \in {"approve", "reject"}
    /\ last.exit = "not_pending"
    /\ \E r \in DOMAIN requests : requests[r].status \in {S_APPROVED, S_REJECTED}

\* C8: a Submit, GET or POST, by the owner while a PENDING request exists
\* for the Inspection changes nothing: the Inspection and the requests are
\* as before and no request is added, so that repeating a submission
\* leaves the state of the first one.
C8_SubmitWhilePendingNoOp ==
    [][\A user \in UserNames, target \in DOMAIN inspections, form \in SubmitForms :
          (/\ Serve("submit", user, target, form[1], form[2])
           /\ inspections[target].id_inspecteur = user
           /\ PendingRequests(DB, target) # {})
          => /\ UNCHANGED Workflow
             /\ last'.exit = "pending_exists"]_vars

\* A Submit has been refused because a PENDING request exists.
C8_Witness ==
    /\ last = [op |-> "submit", exit |-> "pending_exists"]
    /\ Len(requests) = 1
    /\ requests[1].status = S_PENDING

\* A Submit by the owner, with no PENDING request, adds exactly one request:
\* PENDING, requested by the caller, reviewer fields empty, proposed_data =
\* stored(post); the Inspection is unchanged.
SubmitCreates(stored(_)) ==
    \A user \in UserNames, target \in DOMAIN inspections, post \in SubmitPosts :
        (/\ Serve("submit", user, target, "POST", post)
         /\ inspections[target].id_inspecteur = user
         /\ PendingRequests(DB, target) = {})
        => /\ Len(requests') = Len(requests) + 1
           /\ SubSeq(requests', 1, Len(requests)) = requests
           /\ LET new == requests'[Len(requests')]
              IN  /\ new.id_inspection = target
                  /\ new.status = S_PENDING
                  /\ new.requested_by = user
                  /\ new.reviewed_by = NoUser
                  /\ new.reviewed_at = NoTime
                  /\ new.admin_note = None
                  /\ new.proposed_data = stored(post)
           /\ inspections' = inspections
           /\ last'.exit = "created"

Posted(post) ==
    [date_inspection |-> post.date_inspection,
     etat |-> post.etat,
     observations |-> post.observations]

PostedStripped(post) ==
    [date_inspection |-> Strip(post.date_inspection),
     etat |-> Strip(post.etat),
     observations |-> Strip(post.observations)]

\* C9 as stated: a successful Submit by the owning inspector, when no PENDING
\* request exists, creates exactly one new PENDING request with requested_by
\* the caller, reviewer fields empty and proposed_data holding the submitted
\* date_inspection, etat and observations; the Inspection is unchanged.
C9_SubmitStoresPosted == [][SubmitCreates(Posted)]_vars

\* C9 amended: the same, with proposed_data holding the submitted values
\* with leading and trailing whitespace removed.
C9_SubmitStoresStripped == [][SubmitCreates(PostedStripped)]_vars

\* A Submit has created a request whose posted etat carried whitespace.
C9_Witness ==
    /\ last = [op |-> "submit", exit |-> "created"]
    /\ requests # <<>>
    /\ requests[Len(requests)].status = S_PENDING
    /\ requests[Len(requests)].proposed_data.etat = S_MOYEN

\* C10: a user who is not the Inspection's inspector cannot create a
\* modification request for it: the Submit is refused with the redirect of
\* the ownership test and changes nothing; and in every reachable state
\* every request's requested_by is the inspector of its target Inspection.
C10_OnlyOwnerSubmits ==
    /\ [](\A r \in DOMAIN requests :
            requests[r].requested_by = inspections[requests[r].id_inspection].id_inspecteur)
    /\ [][\A p \in Workers, user \in UserNames, target \in DOMAIN inspections,
            form \in SubmitForms :
            (/\ Arrive(p, "submit", user, target, form[1], form[2])
             /\ inspections[target].id_inspecteur # user)
            => /\ UNCHANGED <<Workflow, procs>>
               /\ last' = [op |-> "submit", exit |-> "not_owner"]]_vars

\* A Submit by a user who is not the inspector has been refused while
\* another call is running, and the owner's request exists.
C10_Witness ==
    /\ last = [op |-> "submit", exit |-> "not_owner"]
    /\ requests # <<>>
    /\ \E p \in Workers : procs[p].pc # "idle"

\* The review authority of the specification: superuser or ADMIN-group member.
ReviewAuthority(user) == users[user].is_superuser \/ "ADMIN" \in users[user].groups

\* An Approve or Reject by a user without review authority changes neither
\* the requests, nor the Inspections, nor the audit log.
UnauthorizedReviewRefused ==
    \A op \in {"approve", "reject"}, user \in DOMAIN users, target \in RequestIds,
       form \in ReviewForms :
        (/\ last'.op = op
         /\ ~ReviewAuthority(user)
         /\ Served(op, user, target, form[1], form[2], 0))
        => /\ UNCHANGED Workflow
           /\ last'.exit \in {"method", "not_admin"}

\* A request that becomes APPROVED or REJECTED in this step gets as
\* reviewed_by a user who has review authority when the step starts.
ReviewedByAuthority ==
    \A r \in DOMAIN requests' :
        (/\ requests'[r].status \in {S_APPROVED, S_REJECTED}
         /\ r \in DOMAIN requests => requests[r].status = S_PENDING)
        => /\ requests'[r].reviewed_by \in DOMAIN users
           /\ ReviewAuthority(requests'[r].reviewed_by)

\* The reviewed_by of an APPROVED or REJECTED request stays as it is, unless
\* `cleared`, when it may also become empty.
ReviewerKept(cleared) ==
    \A r \in DOMAIN requests :
        requests[r].status \in {S_APPROVED, S_REJECTED}
        => \/ requests'[r].reviewed_by = requests[r].reviewed_by
           \/ cleared /\ requests'[r].reviewed_by = NoUser

C12_FieldsChangeOnlyOnApproval ==
    [][\A i \in DOMAIN inspections \cap DOMAIN inspections' :
          (\/ inspections'[i].date_inspection # inspections[i].date_inspection
           \/ inspections'[i].etat # inspections[i].etat
           \/ inspections'[i].observations # inspections[i].observations)
          => /\ last'.op = "approve"
             /\ \E r \in DOMAIN requests :
                 /\ requests[r].id_inspection = i
                 /\ requests[r].status = S_PENDING
                 /\ requests'[r].status = S_APPROVED
                 /\ DateIn(requests[r].proposed_data.date_inspection).ok
                 /\ inspections'[i].date_inspection
                        = DateIn(requests[r].proposed_data.date_inspection).date
                 /\ inspections'[i].etat = requests[r].proposed_data.etat
                 /\ inspections'[i].observations = requests[r].proposed_data.observations]_vars

\* The role of the specification's precedence
\* SUPERADMIN > ADMIN > INSPECTEUR > PUBLIC.
Precedence(user) ==
    CHOOSE role \in {"superadmin", "admin", "inspecteur", "public"} :
        /\ role = "superadmin" <=> users[user].is_superuser
        /\ role = "admin" <=> (~users[user].is_superuser /\ "ADMIN" \in users[user].groups)
        /\ role = "inspecteur" <=>
            (/\ ~users[user].is_superuser
             /\ "ADMIN" \notin users[user].groups
             /\ "INSPECTEUR" \in users[user].groups)

\* C13: role resolution returns exactly one role for every combination of
\* superuser flag and group memberships, with the precedence SUPERADMIN >
\* ADMIN > INSPECTEUR > PUBLIC; the router sends the user to the dashboard
\* of that role.
C13_RoleResolution ==
    /\ \A u \in DOMAIN users :
        /\ _user_role(u) \in {"superadmin", "admin", "inspecteur", "public"}
        /\ users[u].is_superuser => _user_role(u) = "superadmin"
        /\ (~users[u].is_superuser /\ "ADMIN" \in users[u].groups) => _user_role(u) = "admin"
        /\ (~users[u].is_superuser /\ users[u].groups = {"INSPECTEUR"})
              => _user_role(u) = "inspecteur"
        /\ (~users[u].is_superuser /\ users[u].groups \cap {"ADMIN", "INSPECTEUR"} = {})
              => _user_role(u) = "public"
    /\ (nav.trail # <<>> /\ nav.trail[Len(nav.trail)] = "dashboard" /\ nav.page = "")
          => nav.url = IF users[nav.user].is_superuser THEN "dashboard-superadmin"
                       ELSE IF "ADMIN" \in users[nav.user].groups THEN "dashboard-admin"
                       ELSE IF "INSPECTEUR" \in users[nav.user].groups THEN "dashboard-inspecteur"
                       ELSE "dashboard-public"

\* The router has resolved a non-superuser member of both groups to ADMIN.
C13_Witness ==
    /\ nav.trail = <<"dashboard">>
    /\ nav.url = "dashboard-admin"
    /\ ~users[nav.user].is_superuser
    /\ users[nav.user].groups = {"ADMIN", "INSPECTEUR"}

\* The template of a role's dashboard.
DashboardOf(role) == "core/dashboard_" \o role \o ".html"

\* C14: from every dashboard URL, for every logged-in user, following the
\* redirects serves no URL twice and ends, after finitely many steps, with
\* the rendering of exactly the dashboard of the user's resolved role.
C14_DashboardRouting ==
    /\ [](/\ \A i, j \in DOMAIN nav.trail : nav.trail[i] = nav.trail[j] => i = j
          /\ nav.page # "" => nav.page = DashboardOf(Precedence(nav.user)))
    /\ <>(nav.page # "")

\* A member of both groups who asked for the inspector dashboard has been
\* served the ADMIN dashboard, after a redirect.
C14_Witness ==
    /\ nav.page = "core/dashboard_admin.html"
    /\ nav.trail = <<"dashboard-inspecteur", "dashboard-admin">>
    /\ users[nav.user].groups = {"ADMIN", "INSPECTEUR"}

\* C15: authorization is evaluated against the user's group memberships at
\* the time of each request.  In every state, whatever toggle_user_group and
\* edit_user did before: an Approve or Reject by a user who is then neither
\* superuser nor in ADMIN is refused and changes nothing, and one by a user
\* who is then in ADMIN, on a PENDING request, is accepted; inspection_create
\* by a user who is then not in INSPECTEUR is refused and changes nothing,
\* and one by a user who is then in INSPECTEUR is not refused.
C15_FreshAuthorization ==
    [][/\ \A op \in {"approve", "reject"}, user \in DOMAIN users, target \in DOMAIN requests,
             post \in ReviewPosts :
            (last'.op = op /\ Served(op, user, target, "POST", post, 0))
            => IF users[user].is_superuser \/ "ADMIN" \in users[user].groups
               THEN requests[target].status = S_PENDING
                    => /\ last'.exit \in {"approved", "rejected", "exception"}
                       /\ last'.exit # "exception"
                            => /\ requests'[target].status \in {S_APPROVED, S_REJECTED}
                               /\ requests'[target].reviewed_by = user
               ELSE last'.exit = "not_admin" /\ UNCHANGED <<Workflow, users, Records>>
       /\ \A caller \in DOMAIN users, method \in Methods, post \in CreatePosts,
             upload \in BOOLEAN :
            (last'.op = "inspection_create" /\ inspection_create(caller, method, post, upload))
            => IF "INSPECTEUR" \in users[caller].groups
               THEN last'.exit # "not_inspecteur"
               ELSE last'.exit = "not_inspecteur" /\ UNCHANGED <<Workflow, users, Records>>]_vars

\* Inspector ins2 has been added to the ADMIN group and has then reviewed
\* the PENDING request.
C15_Witness ==
    /\ "ins2" \in DOMAIN users
    /\ "ADMIN" \in users["ins2"].groups
    /\ last.op \in {"approve", "reject"}
    /\ requests[1].status \in {S_APPROVED, S_REJECTED}
    /\ requests[1].reviewed_by = "ins2"

\* The returns of the views after which the view has changed the state.
SuccessfulChange ==
    {<<"submit", "created">>, <<"approve", "approved">>, <<"reject", "rejected">>,
     <<"inspection_create", "created">>, <<"user_management", "created">>,
     <<"edit_user", "edited">>, <<"toggle_user_group", "toggled">>,
     <<"update_user_email", "updated">>, <<"delete_user", "deleted">>}

\* C16: every successful state-changing operation (Submit, Approve, Reject,
\* inspection creation, user creation, edit, group toggle, e-mail update and
\* deletion) appends at least one AuditLog entry in the same request.
C16_EveryChangeAudited ==
    [][(\E change \in SuccessfulChange : last' = [op |-> change[1], exit |-> change[2]])
       => Len(audit') > Len(audit)]_vars

\* C17: the audit log is append-only: every step of every operation leaves
\* each existing AuditLog entry in its place and unmodified, so the entries
\* of any later state include those of any earlier state.
C17_AuditAppendOnly ==
    [][/\ Len(audit') >= Len(audit)
       /\ SubSeq(audit', 1, Len(audit)) = audit]_vars

C17_Witness ==
    /\ last = [op |-> "delete_user", exit |-> "deleted"]
    /\ Len(audit) >= 2
    /\ audit[Len(audit)].action = "DELETE"
    /\ audit[Len(audit)].entity_type = "USER"
    /\ audit[1].action = "CREATE"

\* The caller is superuser, member of ADMIN, or the uploader of the document.
MayRemove(caller, id_document) ==
    \/ users[caller].is_superuser
    \/ "ADMIN" \in users[caller].groups
    \/ documents[id_document].uploaded_by = caller

\* C18: on authorization failure every operation refuses by redirecting,
\* never by an unhandled error, and leaves all state unchanged; document_delete
\* by a user who is neither superuser, ADMIN nor uploader, on a document
\* attached to an inspection or intervention and to no patrimoine, included.
C18_RefusalRedirects ==
    [][/\ \A caller \in DOMAIN users, id_document \in DOMAIN documents :
            (/\ last'.op = "document_delete"
             /\ ~MayRemove(caller, id_document)
             /\ document_delete(caller, id_document, "POST"))
            => last'.exit = "refused" /\ UNCHANGED <<Workflow, users, Records>>
       /\ \A caller \in DOMAIN users, id_patrimoine \in DOMAIN patrimoines :
            (/\ last'.op = "patrimoine_delete"
             /\ ~users[caller].is_superuser
             /\ patrimoine_delete(caller, id_patrimoine, "POST"))
            => last'.exit = "not_superuser" /\ UNCHANGED <<Workflow, users, Records>>
       /\ \A caller \in DOMAIN users, id_intervention \in DOMAIN interventions :
            (/\ last'.op = "intervention_delete"
             /\ ~(users[caller].is_superuser \/ "ADMIN" \in users[caller].groups)
             /\ intervention_delete(caller, id_intervention, "POST"))
            => last'.exit = "not_allowed" /\ UNCHANGED <<Workflow, users, Records>>]_vars

\* C19: a Document is removed only in a request of a superuser, an ADMIN
\* member or its uploader; document_delete called by any other user leaves
\* the record, the stored file and the audit log unchanged.
C19_DocumentRemoval ==
    [][/\ \A caller \in DOMAIN users, id_document \in DOMAIN documents :
            (/\ last'.op = "document_delete"
             /\ ~MayRemove(caller, id_document)
             /\ document_delete(caller, id_document, "POST"))
            => UNCHANGED <<documents, files, audit>>
       /\ \A caller \in DOMAIN users, id \in DOMAIN documents \cup DOMAIN patrimoines
                                              \cup DOMAIN interventions :
            (\/ document_delete(caller, id, "POST")
             \/ patrimoine_delete(caller, id, "POST")
             \/ intervention_delete(caller, id, "POST"))
            => \A d \in DOMAIN documents \ DOMAIN documents' : MayRemove(caller, d)]_vars

C19_Witness ==
    /\ last = [op |-> "document_delete", exit |-> "refused"]
    /\ DOMAIN documents = {2, 3}
    /\ files = {2, 3}
    /\ Len(audit) = 1
    /\ audit[1].actor = "ins1"

\* C20 as stated: every Inspection is created by a user whose resolved role
\* at creation time is INSPECTEUR; for a user whose role is SUPERADMIN, ADMIN
\* or PUBLIC inspection_create is a redirect that changes nothing.
C20_CreatedByInspecteurRole ==
    [][/\ \A i \in DOMAIN inspections' \ DOMAIN inspections :
            Precedence(inspections'[i].id_inspecteur) = "inspecteur"
       /\ \A caller \in DOMAIN users, method \in Methods, post \in CreatePosts,
             upload \in BOOLEAN :
            (/\ last'.op = "inspection_create"
             /\ Precedence(caller) # "inspecteur"
             /\ inspection_create(caller, method, post, upload))
            => last'.exit = "not_inspecteur" /\ UNCHANGED <<Workflow, users, Records>>]_vars

\* C20, amended: every Inspection is created by a user who is a member of
\* the INSPECTEUR group at creation time, whatever the role resolved from the
\* superuser flag and the other groups; for a user who is not a member
\* inspection_create is a redirect that changes nothing.
C20_CreatedByInspecteurMember ==
    [][/\ \A i \in DOMAIN inspections' \ DOMAIN inspections :
            "INSPECTEUR" \in users[inspections'[i].id_inspecteur].groups
       /\ \A caller \in DOMAIN users, method \in Methods, post \in CreatePosts,
             upload \in BOOLEAN :
            (/\ last'.op = "inspection_create"
             /\ "INSPECTEUR" \notin users[caller].groups
             /\ inspection_create(caller, method, post, upload))
            => last'.exit = "not_inspecteur" /\ UNCHANGED <<Workflow, users, Records>>]_vars

C20_Witness ==
    /\ last = [op |-> "inspection_create", exit |-> "created"]
    /\ \E i \in DOMAIN inspections \ DOMAIN InitInspections :
        /\ inspections[i].id_inspecteur = "adm1"
        /\ users["adm1"].groups = {"ADMIN", "INSPECTEUR"}

\* C21: inspection_create creates an Inspection only when the caller is a
\* member of the INSPECTEUR group at that moment; for a caller not in the
\* group, superuser or not, no Inspection, Document or audit entry is created.
C21_CreateOnlyByMember ==
    [][/\ DOMAIN inspections' # DOMAIN inspections
            => /\ last' = [op |-> "inspection_create", exit |-> "created"]
               /\ \A i \in DOMAIN inspections' \ DOMAIN inspections :
                    "INSPECTEUR" \in users[inspections'[i].id_inspecteur].groups
       /\ \A caller \in DOMAIN users, method \in Methods, post \in CreatePosts,
             upload \in BOOLEAN :
            (/\ last'.op = "inspection_create"
             /\ "INSPECTEUR" \notin users[caller].groups
             /\ inspection_create(caller, method, post, upload))
            => UNCHANGED <<inspections, documents, files, audit>>]_vars

C21_Witness ==
    /\ last = [op |-> "inspection_create", exit |-> "not_inspecteur"]
    /\ users["ins1"].groups = {}
    /\ inspections = InitInspections
    /\ documents = InitDocuments
    /\ audit = <<>>

\* C22: the UPDATE audit entry written by Approve is a before/after
\* snapshot: its old_data is the Inspection's date_inspection (as ISO text),
\* etat and observations immediately before the approval, its new_data is
\* the request's proposed values, and it comes with one REQUEST_APPROVE entry
\* for the request whose actor is the approving admin.
C22_ApproveSnapshot ==
    [][\A user \in UserNames, target \in DOMAIN requests, post \in ReviewPosts :
          (/\ last' = [op |-> "approve", exit |-> "approved"]
           /\ Serve("approve", user, target, "POST", post))
          => LET proposed == requests[target].proposed_data
                 before == inspections[requests[target].id_inspection]
                 update == audit'[Len(audit')]
                 approve == audit'[Len(audit') - 1]
             IN  /\ Len(audit') = Len(audit) + 2
                 /\ update.action = "UPDATE"
                 /\ update.entity_type = "INSPECTION"
                 /\ update.entity_id = requests[target].id_inspection
                 /\ update.old_data =
                        [date_inspection |-> Str(IsoFormat(before.date_inspection)),
                         etat |-> Str(before.etat),
                         observations |-> Str(before.observations)]
                 /\ update.new_data =
                        [date_inspection |-> Str(proposed.date_inspection),
                         etat |-> Str(proposed.etat),
                         observations |-> Str(proposed.observations)]
                 /\ approve.action = "REQUEST_APPROVE"
                 /\ approve.entity_type = "INSPECTION_REQUEST"
                 /\ approve.entity_id = target
                 /\ approve.actor = user
                 /\ Cardinality({a \in DOMAIN audit' :
                        /\ audit'[a].action = "REQUEST_APPROVE"
                        /\ audit'[a].entity_id = target}) = 1]_vars

\* The spec's example: an approval took the Inspection from BON to DEGRADE.
C22_Witness ==
    /\ last = [op |-> "approve", exit |-> "approved"]
    /\ audit # <<>>
    /\ audit[Len(audit)].action = "UPDATE"
    /\ audit[Len(audit)].old_data.etat = Str(S_BON)
    /\ audit[Len(audit)].new_data.etat = Str(S_DEGRADE)

RECURSIVE Pow10(_)
Pow10(n) == IF n = 0 THEN 1 ELSE 10 * Pow10(n - 1)

\* The text s is hh:mm:ss of the time <<h, m, s>>.
IsTimeText(s, time) ==
    /\ Len(s) = 8
    /\ s[3] = ":" /\ s[6] = ":"
    /\ \A i \in 1..3 :
        /\ AllDigits(SubSeq(s, 3 * i - 2, 3 * i - 1))
        /\ ToNat(SubSeq(s, 3 * i - 2, 3 * i - 1)) = time[i]

\* stored is what the audit log is to hold for the value passed.
StoredAs(stored, value) ==
    IF value.t = "date"
    THEN /\ stored.t = "str"
         /\ Len(stored.v) = 10
         /\ DateIn(stored.v) = [ok |-> TRUE, date |-> value.v]
    ELSE IF value.t = "datetime"
    THEN /\ stored.t = "str"
         /\ Len(stored.v) = 19
         /\ DateIn(SubSeq(stored.v, 1, 10)) = [ok |-> TRUE, date |-> SubSeq(value.v, 1, 3)]
         /\ stored.v[11] = "T"
         /\ IsTimeText(SubSeq(stored.v, 12, 19), SubSeq(value.v, 4, 6))
    ELSE IF value.t = "decimal"
    THEN /\ stored.t = "float"
         /\ stored.v[1] * Pow10(value.v[2]) = value.v[1] * Pow10(stored.v[2])
    ELSE stored = value

SnapshotOf(stored, data) ==
    /\ DOMAIN stored = DOMAIN data
    /\ \A k \in DOMAIN data : StoredAs(stored[k], data[k])

Snapshots == UNION {{audit[a].old_data, audit[a].new_data} : a \in DOMAIN audit}

\* C23: every mapping passed to the audit log is stored with each date or
\* datetime as its ISO-8601 text and each decimal as a plain number, all
\* other values and all keys as passed; normalizing a stored mapping again
\* returns it unchanged; no stored snapshot holds a raw date, datetime or
\* decimal.
C23_AuditNormalization ==
    /\ [][\A data \in AuditInputs, other \in OtherInputs :
            /\ AppendAudit("root", "UPDATE", "INTERVENTION", 1, data, other)
                => /\ SnapshotOf(audit'[Len(audit')].old_data, data)
                   /\ SnapshotOf(audit'[Len(audit')].new_data, other)
            /\ AppendAudit("root", "UPDATE", "INTERVENTION", 1, other, data)
                => /\ SnapshotOf(audit'[Len(audit')].old_data, other)
                   /\ SnapshotOf(audit'[Len(audit')].new_data, data)]_vars
    /\ [](\A snapshot \in Snapshots :
            /\ _normalize_audit_data(snapshot) = snapshot
            /\ \A k \in DOMAIN snapshot : snapshot[k].t \notin {"date", "datetime", "decimal"})

C23_Witness ==
    /\ last = [op |-> "_log_audit", exit |-> "created"]
    /\ \E a \in DOMAIN audit :
        /\ DOMAIN audit[a].old_data = AuditKeys
        /\ audit[a].old_data["date_debut"] = Str(<<"0", "9", "8", "7", "-", "1", "2", "-", "0", "1">>)
        /\ audit[a].old_data["file_size_mb"] = FloatV(<<15, 1>>)

\* C24: a Submit whose payload misses a required field (empty
\* date_inspection or empty etat) is a validation failure: it is reported to
\* the caller and no InspectionModificationRequest is created.
C24_SubmitValidates ==
    [][\A user \in UserNames, target \in InspectionIds, post \in SubmitPosts :
          (/\ last'.op = "submit"
           /\ post.date_inspection = <<>> \/ post.etat = <<>>
           /\ Serve("submit", user, target, "POST", post))
          => last'.exit # "created" /\ requests' = requests]_vars

\* C25: in every reachable state each Inspection's etat is one of BON,
\* MOYEN, DEGRADE, whatever was posted to inspection_create or carried in the
\* proposed_data of an approved request.
C25_EtatIsChoice ==
    \A i \in DOMAIN inspections : inspections[i].etat \in {S_BON, S_MOYEN, S_DEGRADE}

\* The Inspection of request r has been written since its creation and
\* holds the values that r proposes, and no other request proposes the same
\* for it: they were written from r's proposed_data.
OverwrittenBy(r) ==
    LET proposed == requests[r].proposed_data
        i == requests[r].id_inspection
    IN  /\ i \in DOMAIN inspections
        /\ inspections[i].updated_at # InitInspections[1].updated_at
        /\ DateIn(proposed.date_inspection).ok
        /\ inspections[i].date_inspection = DateIn(proposed.date_inspection).date
        /\ inspections[i].etat = proposed.etat
        /\ inspections[i].observations = proposed.observations
        /\ \A other \in DOMAIN requests \ {r} :
            requests[other].id_inspection = i
            => requests[other].proposed_data # proposed

\* C26: the proposed data of a request is applied to its Inspection only if
\* the request ends APPROVED: in no reachable state, under any interleaving
\* of Approve and Reject calls on the same request, is a request REJECTED
\* while the Inspection's fields were overwritten by its proposed_data.
C26_RejectedNotApplied ==
    \A r \in DOMAIN requests : requests[r].status = S_REJECTED => ~OverwrittenBy(r)

\* The review entries of request r in the audit log.
ReviewEntries(r) ==
    {a \in DOMAIN audit :
        /\ audit[a].action \in {"REQUEST_APPROVE", "REQUEST_REJECT"}
        /\ audit[a].entity_type = "INSPECTION_REQUEST"
        /\ audit[a].entity_id = r}

\* C27: for every request at most one review audit entry (REQUEST_APPROVE or
\* REQUEST_REJECT with the request's id) exists in any reachable state, and
\* one exists exactly when the request's status is not PENDING, its action
\* matching the status.
C27_OneReviewEntry ==
    \A r \in DOMAIN requests :
        /\ Cardinality(ReviewEntries(r)) <= 1
        /\ ReviewEntries(r) # {} <=> requests[r].status # S_PENDING
        /\ \A a \in ReviewEntries(r) :
            audit[a].action = IF requests[r].status = S_APPROVED
                              THEN "REQUEST_APPROVE" ELSE "REQUEST_REJECT"

C29_ReviewedDoesNotBlock ==
    [][\A user \in UserNames, target \in DOMAIN inspections, post \in SubmitPosts :
          (/\ last'.op = "submit"
           /\ inspections[target].id_inspecteur = user
           /\ \E r \in DOMAIN requests : requests[r].id_inspection = target
           /\ \A r \in DOMAIN requests :
                requests[r].id_inspection = target
                => requests[r].status \in {S_APPROVED, S_REJECTED}
           /\ Serve("submit", user, target, "POST", post))
          => /\ last'.exit = "created"
             /\ Len(requests') = Len(requests) + 1
             /\ SubSeq(requests', 1, Len(requests)) = requests
             /\ requests'[Len(requests')].status = S_PENDING
             /\ requests'[Len(requests')].id_inspection = target
             /\ requests'[Len(requests')].requested_by = user]_vars

C29_Witness ==
    /\ last = [op |-> "submit", exit |-> "created"]
    /\ Len(requests) = 2
    /\ requests[1].id_inspection = requests[2].id_inspection
    /\ requests[1].status = S_REJECTED
    /\ requests[2].status = S_PENDING

\* C30: delete_user never removes the caller's own account nor a superuser
\* account, so the set of superusers never shrinks through it; and an audit
\* entry with action DELETE and entity_type USER is written only for a user
\* that is removed, also when the deletion itself fails.
C30_DeleteUserAudited ==
    [][/\ \A caller \in DOMAIN users, user_id \in UserIds, method \in Methods :
            (last'.op = "delete_user" /\ delete_user(caller, user_id, method))
            => /\ caller \in DOMAIN users'
               /\ \A user \in DOMAIN users :
                    users[user].is_superuser
                    => user \in DOMAIN users' /\ users'[user].is_superuser
       /\ \A a \in NewAudit :
            (audit'[a].action = "DELETE" /\ audit'[a].entity_type = "USER")
            => /\ audit'[a].entity_id \in DOMAIN users
               /\ audit'[a].entity_id \notin DOMAIN users']_vars

====
